---------------------------- MODULE Spec2Model ----------------------------
(***************************************************************************)
(* Model of etf_saver_gui.py: the finance engine (pure functions over      *)
(* monthly compounding) and the Tk form handlers that call it.             *)
(*                                                                         *)
(* Numbers are exact rationals <<num, den>> (den > 0, lowest terms), so    *)
(* every formula is computed by the arithmetic the code performs; binary   *)
(* floating-point rounding is not modelled.  A Python exception is the     *)
(* "err" field of an outcome record.                                       *)
(***************************************************************************)
EXTENDS Integers, Sequences, FiniteSets, TLC

VARIABLES
    call,   \* the engine function applied last: [fn, args, out]
    prev,   \* the call whose result was fed into `call`, or NoCall
    \* the Tk variables behind the entry fields, one record per tab
    dca, goal, div, life, port,
    asset_rows,             \* the portfolio tab's rows, in grid order
    \* what the result labels and the charts show
    dca_result, dca_plot,
    goal_result, goal_plot,
    div_income_result, div_required_result,
    life_result, life_plot_acc, life_plot_draw,
    port_result, port_plot_pie, port_plot_growth,
    save_path,              \* what the save dialog returned last
    files,                  \* the files written, by path
    dialog,                 \* the message box the last handler showed
    last                    \* the handler that ran last

\* ---------------------------------------------------------------- bounds
\* Amounts (principal, payment, target) range over -MaxAmount..MaxAmount.
MaxAmount == 2
\* Month counts passed directly to the engine range over -1..MaxMonths.
MaxMonths == 3
\* Terms passed to monthly_withdraw_for_years are k/24 years, k in
\* -1..MaxHalfMonths, so years*12 = k/2 covers the rounding ties.
MaxHalfMonths == 5
\* The portfolio grid holds at most MaxRows rows (it starts with DefaultRows).
MaxRows == 5

\* The largest common factor the weights of a grid are scaled by.
MaxScale == 3

\* ------------------------------------------------------------- rationals
Abs(n) == IF n < 0 THEN -n ELSE n

RECURSIVE GCD(_, _)
GCD(a, b) == IF b = 0 THEN a ELSE GCD(b, a % b)

Norm(n, d) ==
    LET s == IF d < 0 THEN -1 ELSE 1
        g == GCD(Abs(n), Abs(d))
    IN  <<(s * n) \div g, (s * d) \div g>>

R(n) == <<n, 1>>
Zero == <<0, 1>>
One == <<1, 1>>

RNeg(x) == <<-x[1], x[2]>>

RAdd(x, y) ==
    LET g == GCD(x[2], y[2])
    IN  Norm(x[1] * (y[2] \div g) + y[1] * (x[2] \div g), (x[2] \div g) * y[2])

RSub(x, y) == RAdd(x, RNeg(y))

RMul(x, y) ==
    LET g1 == GCD(Abs(x[1]), y[2])
        g2 == GCD(Abs(y[1]), x[2])
    IN  Norm((x[1] \div g1) * (y[1] \div g2), (x[2] \div g2) * (y[2] \div g1))

\* 1/x, x # 0
RInv(x) == Norm(x[2], x[1])

\* x / y, y # 0 (the callers raise ZeroDivisionError first)
RDiv(x, y) == RMul(x, RInv(y))

RLt(x, y) == x[1] * y[2] < y[1] * x[2]

RLe(x, y) == x[1] * y[2] <= y[1] * x[2]

RAbs(x) == <<Abs(x[1]), x[2]>>

RMax(x, y) == IF RLt(x, y) THEN y ELSE x

RECURSIVE IPow(_, _)
IPow(b, n) == IF n = 0 THEN 1 ELSE b * IPow(b, n - 1)

\* x ** n, n >= 0: a fraction in lowest terms stays so under powers.
RPowNat(x, n) == <<IPow(x[1], n), IPow(x[2], n)>>

\* x ** n for an integer n; 0 ** 0 = 1 as in Python.  Defined unless
\* PowFails(x, n).
RPow(x, n) == IF n >= 0 THEN RPowNat(x, n) ELSE RInv(RPowNat(x, -n))

\* Python: 0.0 ** n with n < 0 raises ZeroDivisionError.
PowFails(x, n) == x[1] = 0 /\ n < 0

\* Python round(): to the nearest integer, ties to the even one.
RoundHalfEven(x) ==
    LET fl == x[1] \div x[2]
        twice == 2 * (x[1] - fl * x[2])
    IN  IF twice < x[2] THEN fl
        ELSE IF twice > x[2] THEN fl + 1
        ELSE IF fl % 2 = 0 THEN fl ELSE fl + 1

\* --------------------------------------------------------------- outcomes
Ok(v) == [err |-> "none", val |-> v]

Raise(e) == [err |-> e, val |-> Zero]

\* ------------------------------------------------------- finance engine
\* Integers whose 12th power the model's integers can hold (5^12 < 2^31).
RootCandidates == 0..5

IPow12(k) == k * k * k * k * k * k * k * k * k * k * k * k

HasRoot12(x) ==
    /\ \E p \in RootCandidates : IPow12(p) = x[1]
    /\ \E q \in RootCandidates : IPow12(q) = x[2]

\* x ** (1/12) for the x >= 0 whose 12th root is rational.
Root12(x) ==
    <<CHOOSE p \in RootCandidates : IPow12(p) = x[1],
      CHOOSE q \in RootCandidates : IPow12(q) = x[2]>>

\* The annual percentages the model can convert exactly.
Convertible(r_annual_pct) == HasRoot12(RAdd(One, RDiv(r_annual_pct, R(100))))

annual_to_monthly_rate(r_annual_pct) ==
    LET r == RDiv(r_annual_pct, R(100))
    IN  RSub(Root12(RAdd(One, r)), One)

\* Mutant: the annuity-due factor (1 + i) is never applied.
fv_annuity_NoDue(pmt, i, n, due) ==
    IF i # Zero /\ PowFails(RAdd(One, i), n) THEN Raise("ZeroDivisionError")
    ELSE Ok(IF i = Zero THEN RMul(pmt, R(n))
            ELSE RDiv(RMul(pmt, RSub(RPow(RAdd(One, i), n), One)), i))

fv_annuity(pmt, i, n, due) ==
    IF i # Zero /\ PowFails(RAdd(One, i), n) THEN Raise("ZeroDivisionError")
    ELSE
        LET fv == IF i = Zero THEN RMul(pmt, R(n))
                  ELSE RDiv(RMul(pmt, RSub(RPow(RAdd(One, i), n), One)), i)
        IN  Ok(IF due THEN RMul(fv, RAdd(One, i)) ELSE fv)

fv_with_principal(pv, pmt, i, n, due) ==
    IF PowFails(RAdd(One, i), n) THEN Raise("ZeroDivisionError")
    ELSE
        LET ann == fv_annuity(pmt, i, n, due)
        IN  IF ann.err # "none" THEN ann
            ELSE Ok(RAdd(RMul(pv, RPow(RAdd(One, i), n)), ann.val))

\* 1e-12 = 1 / (Million * Million)
Million == 1000000

\* abs(factor) < 1e-12
FactorTooSmall(factor) ==
    \/ factor[1] = 0
    \/ ((factor[2] - 1) \div Abs(factor[1])) \div Million >= Million

\* Mutant: the annuity-due factor (1 + i) is left out.
solve_pmt_for_target_fv_NoDue(fv_target, pv, i, n, due) ==
    IF i # Zero /\ PowFails(RAdd(One, i), n) THEN Raise("ZeroDivisionError")
    ELSE
        LET factor == IF i = Zero THEN R(n)
                      ELSE RDiv(RSub(RPow(RAdd(One, i), n), One), i)
            numer == RSub(fv_target, RMul(pv, RPow(RAdd(One, i), n)))
        IN  IF FactorTooSmall(factor) THEN Raise("ValueError")
            ELSE Ok(RDiv(numer, factor))

\* Mutant: a degenerate factor yields a zero payment instead of an error.
solve_pmt_for_target_fv_ZeroPayment(fv_target, pv, i, n, due) ==
    IF i # Zero /\ PowFails(RAdd(One, i), n) THEN Raise("ZeroDivisionError")
    ELSE
        LET f0 == IF i = Zero THEN R(n)
                  ELSE RDiv(RSub(RPow(RAdd(One, i), n), One), i)
            factor == IF due /\ i # Zero THEN RMul(f0, RAdd(One, i)) ELSE f0
            numer == RSub(fv_target, RMul(pv, RPow(RAdd(One, i), n)))
        IN  IF FactorTooSmall(factor) THEN Ok(Zero)
            ELSE Ok(RDiv(numer, factor))

solve_pmt_for_target_fv(fv_target, pv, i, n, due) ==
    IF i # Zero /\ PowFails(RAdd(One, i), n) THEN Raise("ZeroDivisionError")
    ELSE
        LET f0 == IF i = Zero THEN R(n)
                  ELSE RDiv(RSub(RPow(RAdd(One, i), n), One), i)
            factor == IF due /\ i # Zero THEN RMul(f0, RAdd(One, i)) ELSE f0
            numer == RSub(fv_target, RMul(pv, RPow(RAdd(One, i), n)))
        IN  IF FactorTooSmall(factor) THEN Raise("ValueError")
            ELSE Ok(RDiv(numer, factor))

\* Mutant: the yield is used as a fraction, not a percentage.
monthly_dividend_income_NoPct(principal, dividend_yield_pct) ==
    Ok(RDiv(RMul(principal, dividend_yield_pct), R(12)))

monthly_dividend_income(principal, dividend_yield_pct) ==
    LET y == RDiv(dividend_yield_pct, R(100))
    IN  Ok(RDiv(RMul(principal, y), R(12)))

\* Mutant: only a zero yield is rejected.
required_principal_for_dividend_ZeroOnly(target_monthly, dividend_yield_pct) ==
    LET y == RDiv(dividend_yield_pct, R(100))
    IN  IF y = Zero THEN Raise("ValueError")
        ELSE Ok(RDiv(RMul(target_monthly, R(12)), y))

required_principal_for_dividend(target_monthly, dividend_yield_pct) ==
    LET y == RDiv(dividend_yield_pct, R(100))
    IN  IF RLe(y, Zero) THEN Raise("ValueError")
        ELSE Ok(RDiv(RMul(target_monthly, R(12)), y))

\* Mutant: int(years * 12), truncating toward zero.
TermMonths_Trunc(years) ==
    LET x == RMul(years, R(12))
    IN  IF x[1] >= 0 THEN x[1] \div x[2] ELSE -((-x[1]) \div x[2])

\* Mutant: ties rounded up instead of to the even month count.
TermMonths_HalfUp(years) ==
    LET x == RMul(years, R(12))
    IN  (2 * x[1] + x[2]) \div (2 * x[2])

\* m = int(round(years * 12))
TermMonths(years) == RoundHalfEven(RMul(years, R(12)))

monthly_withdraw_for_years(corpus, annual_return_pct, years) ==
    LET j == annual_to_monthly_rate(annual_return_pct)
        m == TermMonths(years)
    IN  IF m <= 0 THEN Raise("ValueError")
        ELSE IF j = Zero THEN Ok(RDiv(corpus, R(m)))
        ELSE IF PowFails(RAdd(One, j), -m) THEN Raise("ZeroDivisionError")
        ELSE LET den == RSub(One, RPow(RAdd(One, j), -m))
             IN  IF den = Zero THEN Raise("ZeroDivisionError")
                 ELSE Ok(RDiv(RMul(corpus, j), den))

swr_monthly(corpus, swr_pct) ==
    Ok(RDiv(RMul(corpus, RDiv(swr_pct, R(100))), R(12)))

\* Mutant: the two timings are exchanged.
GrowthStep_Swapped(bal, pmt, i, due) ==
    IF due THEN RAdd(RMul(bal, RAdd(One, i)), pmt)
    ELSE RMul(RAdd(bal, pmt), RAdd(One, i))

\* One pass of the loop body of simulate_growth.
GrowthStep(bal, pmt, i, due) ==
    IF due THEN RMul(RAdd(bal, pmt), RAdd(One, i))
    ELSE RAdd(RMul(bal, RAdd(One, i)), pmt)

RECURSIVE GrowthLoop(_, _, _, _, _)
GrowthLoop(balances, pmt, i, left, due) ==
    IF left <= 0 THEN balances
    ELSE GrowthLoop(Append(balances,
                           GrowthStep(balances[Len(balances)], pmt, i, due)),
                    pmt, i, left - 1, due)

simulate_growth(pv, pmt, i, months, due) ==
    Ok(GrowthLoop(<<pv>>, pmt, i, months, due))

\* Mutant: the withdrawal is taken at the start of the month.
RECURSIVE DrawdownLoop_WithdrawFirst(_, _, _, _, _)
DrawdownLoop_WithdrawFirst(balances, bal, monthly_withdraw, j, left) ==
    IF left <= 0 THEN balances
    ELSE LET nb == RMul(RSub(bal, monthly_withdraw), RAdd(One, j))
             out == Append(balances, RMax(nb, Zero))
         IN  IF RLe(nb, Zero) THEN out
             ELSE DrawdownLoop_WithdrawFirst(out, nb, monthly_withdraw, j,
                                             left - 1)

\* The loop of simulate_drawdown; bal is the unfloored running balance.
RECURSIVE DrawdownLoop(_, _, _, _, _)
DrawdownLoop(balances, bal, monthly_withdraw, j, left) ==
    IF left <= 0 THEN balances
    ELSE LET nb == RSub(RMul(bal, RAdd(One, j)), monthly_withdraw)
             out == Append(balances, RMax(nb, Zero))
         IN  IF RLe(nb, Zero) THEN out
             ELSE DrawdownLoop(out, nb, monthly_withdraw, j, left - 1)

simulate_drawdown(corpus, monthly_withdraw, annual_return_pct, months) ==
    LET j == annual_to_monthly_rate(annual_return_pct)
    IN  Ok(DrawdownLoop(<<corpus>>, corpus, monthly_withdraw, j, months))

\* ---------------------------------------------- direct calls of the engine
\* Each function is applied once to inputs drawn from the sets below; a Feed
\* action then applies the inverse function to the value just returned.
NoCall == [fn |-> "none"]

Amounts == {R(k) : k \in (-MaxAmount)..MaxAmount}

\* Monthly rates handed directly to the annuity functions.
Rates == {<<-1, 1>>, <<-1, 2>>, Zero, <<1, 2>>, One}

Months == (-1)..MaxMonths

\* Annual percentages with an exact monthly rate: -1, -1/2, 0, 1/2, 1.
AnnualPcts ==
    {R(-100), <<-102375, 1024>>, Zero, <<13183625, 1024>>, R(409500)}

Terms == {Norm(k, 24) : k \in (-1)..MaxHalfMonths}

Yields == {R(-1), Zero, <<1, 2>>, R(3), R(7)}

Principals == Amounts \cup {R(1000000)}

Incomes == Amounts \cup {R(20000)}


CallAnnualToMonthlyRate ==
    /\ call = NoCall
    /\ \E r \in AnnualPcts :
        /\ call' = [fn |-> "annual_to_monthly_rate",
                    args |-> [r_annual_pct |-> r],
                    out |-> Ok(annual_to_monthly_rate(r))]
        /\ prev' = NoCall

CallFvAnnuity ==
    /\ call = NoCall
    /\ \E pmt \in Amounts, i \in Rates, n \in Months, due \in BOOLEAN :
        /\ call' = [fn |-> "fv_annuity",
                    args |-> [pmt |-> pmt, i |-> i, n |-> n, due |-> due],
                    out |-> fv_annuity(pmt, i, n, due)]
        /\ prev' = NoCall

CallFvWithPrincipal ==
    /\ call = NoCall
    /\ \E pv \in Amounts, pmt \in Amounts, i \in Rates, n \in Months,
       due \in BOOLEAN :
        /\ call' = [fn |-> "fv_with_principal",
                    args |-> [pv |-> pv, pmt |-> pmt, i |-> i, n |-> n,
                              due |-> due],
                    out |-> fv_with_principal(pv, pmt, i, n, due)]
        /\ prev' = NoCall

CallSolvePmt ==
    /\ call = NoCall
    /\ \E t \in Amounts, pv \in Amounts, i \in Rates, n \in Months,
       due \in BOOLEAN :
        /\ call' = [fn |-> "solve_pmt_for_target_fv",
                    args |-> [fv_target |-> t, pv |-> pv, i |-> i, n |-> n,
                              due |-> due],
                    out |-> solve_pmt_for_target_fv(t, pv, i, n, due)]
        /\ prev' = NoCall

\* The payment solve_pmt_for_target_fv returned, put back through
\* fv_with_principal with the same principal, rate, months and timing.
FeedSolvedPmt ==
    /\ call.fn = "solve_pmt_for_target_fv"
    /\ call.out.err = "none"
    /\ call' = [fn |-> "fv_with_principal",
                args |-> [pv |-> call.args.pv, pmt |-> call.out.val,
                          i |-> call.args.i, n |-> call.args.n,
                          due |-> call.args.due],
                out |-> fv_with_principal(call.args.pv, call.out.val,
                                          call.args.i, call.args.n,
                                          call.args.due)]
    /\ prev' = call

\* The payment solve_pmt_for_target_fv returned, simulated month by month
\* with the same principal, rate, months and timing, as on_goal_calc does.
FeedSolvedPmtToGrowth ==
    /\ call.fn = "solve_pmt_for_target_fv"
    /\ call.out.err = "none"
    /\ call.args.n >= 0
    /\ call' = [fn |-> "simulate_growth",
                args |-> [pv |-> call.args.pv, pmt |-> call.out.val,
                          i |-> call.args.i, months |-> call.args.n,
                          due |-> call.args.due],
                out |-> simulate_growth(call.args.pv, call.out.val,
                                        call.args.i, call.args.n,
                                        call.args.due)]
    /\ prev' = call

CallMonthlyDividendIncome ==
    /\ call = NoCall
    /\ \E p \in Principals, y \in Yields :
        /\ call' = [fn |-> "monthly_dividend_income",
                    args |-> [principal |-> p, dividend_yield_pct |-> y],
                    out |-> monthly_dividend_income(p, y)]
        /\ prev' = NoCall

CallRequiredPrincipal ==
    /\ call = NoCall
    /\ \E t \in Incomes, y \in Yields :
        /\ call' = [fn |-> "required_principal_for_dividend",
                    args |-> [target_monthly |-> t, dividend_yield_pct |-> y],
                    out |-> required_principal_for_dividend(t, y)]
        /\ prev' = NoCall

\* required_principal_for_dividend applied to the income just computed.
FeedIncome ==
    /\ call.fn = "monthly_dividend_income"
    /\ call.out.err = "none"
    /\ LET y == call.args.dividend_yield_pct
       IN  call' = [fn |-> "required_principal_for_dividend",
                    args |-> [target_monthly |-> call.out.val,
                              dividend_yield_pct |-> y],
                    out |-> required_principal_for_dividend(call.out.val, y)]
    /\ prev' = call

\* monthly_dividend_income applied to the principal just computed.
FeedPrincipal ==
    /\ call.fn = "required_principal_for_dividend"
    /\ call.out.err = "none"
    /\ LET y == call.args.dividend_yield_pct
       IN  call' = [fn |-> "monthly_dividend_income",
                    args |-> [principal |-> call.out.val,
                              dividend_yield_pct |-> y],
                    out |-> monthly_dividend_income(call.out.val, y)]
    /\ prev' = call

CallMonthlyWithdraw ==
    /\ call = NoCall
    /\ \E c \in Amounts, r \in AnnualPcts, years \in Terms :
        /\ call' = [fn |-> "monthly_withdraw_for_years",
                    args |-> [corpus |-> c, annual_return_pct |-> r,
                              years |-> years],
                    out |-> monthly_withdraw_for_years(c, r, years)]
        /\ prev' = NoCall

\* The withdrawal monthly_withdraw_for_years returned, drawn down over the
\* same whole number of months at the same return, as on_life_calc does in
\* its fixed-term mode.
FeedWithdrawToDrawdown ==
    /\ call.fn = "monthly_withdraw_for_years"
    /\ call.out.err = "none"
    /\ call' = [fn |-> "simulate_drawdown",
                args |-> [corpus |-> call.args.corpus,
                          monthly_withdraw |-> call.out.val,
                          annual_return_pct |-> call.args.annual_return_pct,
                          months |-> TermMonths(call.args.years)],
                out |-> simulate_drawdown(call.args.corpus, call.out.val,
                                          call.args.annual_return_pct,
                                          TermMonths(call.args.years))]
    /\ prev' = call

CallSwrMonthly ==
    /\ call = NoCall
    /\ \E c \in Amounts, s \in Yields :
        /\ call' = [fn |-> "swr_monthly",
                    args |-> [corpus |-> c, swr_pct |-> s],
                    out |-> swr_monthly(c, s)]
        /\ prev' = NoCall

CallSimulateGrowth ==
    /\ call = NoCall
    /\ \E pv \in Amounts, pmt \in Amounts, i \in Rates, n \in Months,
       due \in BOOLEAN :
        /\ call' = [fn |-> "simulate_growth",
                    args |-> [pv |-> pv, pmt |-> pmt, i |-> i, months |-> n,
                              due |-> due],
                    out |-> simulate_growth(pv, pmt, i, n, due)]
        /\ prev' = NoCall

CallSimulateDrawdown ==
    /\ call = NoCall
    /\ \E c \in Amounts, w \in Amounts, r \in AnnualPcts, n \in Months :
        /\ call' = [fn |-> "simulate_drawdown",
                    args |-> [corpus |-> c, monthly_withdraw |-> w,
                              annual_return_pct |-> r, months |-> n],
                    out |-> simulate_drawdown(c, w, r, n)]
        /\ prev' = NoCall

EngineCall ==
    \/ CallAnnualToMonthlyRate
    \/ CallFvAnnuity
    \/ CallFvWithPrincipal
    \/ CallSolvePmt
    \/ FeedSolvedPmt
    \/ FeedSolvedPmtToGrowth
    \/ CallMonthlyDividendIncome
    \/ CallRequiredPrincipal
    \/ FeedIncome
    \/ FeedPrincipal
    \/ CallMonthlyWithdraw
    \/ FeedWithdrawToDrawdown
    \/ CallSwrMonthly
    \/ CallSimulateGrowth
    \/ CallSimulateDrawdown


\* ------------------------------------------------------------ the Tk forms
\* A DoubleVar / IntVar bound to an Entry: the number typed, or text that is
\* no number (an empty entry), for which get() raises TclError.
TkNum(v) == [num |-> TRUE, v |-> v]

TkBlank == [num |-> FALSE, v |-> 0]

\* get() of a numeric variable: whole numbers are held as integers, other
\* numbers (2.5) as fractions <<5, 2>>.
Get(x) == IF x.v \in Int THEN R(x.v) ELSE x.v

\* Whether get() succeeds on each of the variables.
AllNum(tkvars) == \A x \in tkvars : x.num

\* Annual return percentages typed into the forms: monthly rates -1, 0, 1.
FormReturns == {-100, 0, 409500}

\* f"{x:,.0f}": the number rounded to a whole number for display.
Fmt0(x) == RoundHalfEven(x)

\* f"{x:.2f}": the number rounded to hundredths (held as hundredths).
Fmt2(x) == RoundHalfEven(RMul(x, R(100)))

NoText == [shown |-> FALSE]

EmptyPlot == [kind |-> "empty"]

\* range(len(balances))
Range(n) == [k \in 1..n |-> k - 1]

\* PlotArea.plot_series
plot_series(xs, ys, title) ==
    [kind |-> "series", xs |-> xs, ys |-> ys, title |-> title]

\* PlotArea.plot_pie
plot_pie(labels, sizes, title) ==
    [kind |-> "pie", labels |-> labels, sizes |-> sizes, title |-> title]

NoDialog == [kind |-> "none", text |-> ""]

\* messagebox.showerror("錯誤", str(e))
showerror(e) == [kind |-> "error", text |-> e]

\* messagebox.showinfo
showinfo(text) == [kind |-> "info", text |-> text]

\* max(0, int(years) * 12)
MonthsOf(years) == IF years * 12 > 0 THEN years * 12 ELSE 0

\* What a handler did before it returned or raised: "done" counts the
\* widgets it had updated, in the order the code updates them.
Outcome(err, done, label, plot1, plot2) ==
    [err |-> err, done |-> done, label |-> label, plot1 |-> plot1,
     plot2 |-> plot2]

Aborted(err, done, plot1) == Outcome(err, done, NoText, plot1, EmptyPlot)

\* ----- Tab: Goal Seek -----
GoalDefaults ==
    [target |-> TkNum(5000000), pv |-> TkNum(0), return |-> TkNum(7),
     years |-> TkNum(20), due |-> FALSE]

\* What the user types into the goal tab before clicking.
GoalInputs ==
    [target : {TkNum(1), TkNum(2)},
     pv : {TkNum(0), TkNum(1)},
     return : {TkNum(r) : r \in FormReturns},
     years : {TkNum(-1), TkNum(0), TkNum(1), TkBlank},
     due : BOOLEAN]

\* The try block of on_goal_calc on the form f.
on_goal_calc(f) ==
    IF ~AllNum({f.return, f.years, f.target, f.pv})
    THEN Aborted("TclError", 0, EmptyPlot)
    ELSE
        LET i == annual_to_monthly_rate(R(f.return.v))
            n == MonthsOf(f.years.v)
            pmt == solve_pmt_for_target_fv(R(f.target.v), R(f.pv.v), i, n,
                                           f.due)
        IN  IF pmt.err # "none" THEN Aborted(pmt.err, 0, EmptyPlot)
            ELSE
                LET balances ==
                        simulate_growth(R(f.pv.v), pmt.val, i, n, f.due).val
                IN  Outcome("none", 2, [shown |-> TRUE, pmt |-> Fmt0(pmt.val)],
                            plot_series(Range(Len(balances)), balances,
                                        "goal path"),
                            EmptyPlot)

\* ----- Tab: DCA -----
\* What the user types into the DCA tab before clicking.
DcaInputs ==
    [pv : {TkNum(1)},
     pmt : {TkNum(1)},
     return : {TkNum(r) : r \in FormReturns},
     years : {TkNum(0), TkNum(1), TkBlank},
     due : BOOLEAN]

\* The try block of on_dca_calc on the form f.
on_dca_calc(f) ==
    IF ~AllNum({f.return, f.years, f.pv, f.pmt})
    THEN Aborted("TclError", 0, EmptyPlot)
    ELSE
        LET i == annual_to_monthly_rate(R(f.return.v))
            months == MonthsOf(f.years.v)
            balances ==
                simulate_growth(R(f.pv.v), R(f.pmt.v), i, months, f.due).val
            fv == balances[Len(balances)]
            total_contrib == RAdd(R(f.pv.v), RMul(R(f.pmt.v), R(months)))
        IN  Outcome("none", 2,
                    [shown |-> TRUE, fv |-> Fmt0(fv),
                     total_contrib |-> Fmt0(total_contrib),
                     gain |-> Fmt0(RSub(fv, total_contrib))],
                    plot_series(Range(Len(balances)), balances,
                                "DCA growth"),
                    EmptyPlot)

\* The file names the save dialog can return; "" is a cancelled dialog.
Paths == {"dca.csv"}

\* The save dialog was not opened.
NoPath == "none"

NoFile == [exists |-> FALSE, header |-> <<>>, rows |-> <<>>]

\* Mutant: the months are numbered from 1.
CsvRows_FromOne(balances) ==
    [k \in 1..Len(balances) |-> <<k, Fmt2(balances[k])>>]

\* for m, bal in enumerate(balances): w.writerow([m, f"{bal:.2f}"])
CsvRows(balances) ==
    [k \in 1..Len(balances) |-> <<k - 1, Fmt2(balances[k])>>]

\* The file on_dca_export writes for the balances.
CsvFile(balances) ==
    [exists |-> TRUE, header |-> <<"month", "balance">>,
     rows |-> CsvRows(balances)]

\* on_dca_export on the form f when the save dialog returns path: the error
\* raised, the answer of the dialog (NoPath when it was never opened) and
\* the file written (NoFile when none was).
on_dca_export(f, path) ==
    IF ~AllNum({f.return, f.years, f.pv, f.pmt})
    THEN [err |-> "TclError", asked |-> NoPath, file |-> NoFile]
    ELSE
        LET i == annual_to_monthly_rate(R(f.return.v))
            months == MonthsOf(f.years.v)
            balances ==
                simulate_growth(R(f.pv.v), R(f.pmt.v), i, months, f.due).val
        IN  IF path = "" THEN [err |-> "none", asked |-> path, file |-> NoFile]
            ELSE [err |-> "none", asked |-> path, file |-> CsvFile(balances)]

\* ----- Tab: Portfolio -----
PortDefaults ==
    [name |-> "my ETF portfolio", pv |-> TkNum(0), pmt |-> TkNum(15000),
     years |-> TkNum(20)]

\* add_row(name="", w=25.0, r=7.0, y=3.0)
DefaultRow == [name |-> "", w |-> TkNum(25), r |-> TkNum(7), y |-> TkNum(3)]

\* for _ in range(4): add_row()
DefaultRows == 4

PortInputs ==
    [name : {"my ETF portfolio"},
     pv : {TkNum(0)},
     pmt : {TkNum(1)},
     years : {TkNum(1), TkBlank}]

\* The weight columns the user types, as the weight of the k-th row.
TypedWeight(col, k) ==
    CASE col = "equal25" -> 25
      [] col = "unit" -> 1
      [] col = "ramp" -> k
      [] col = "ramp2" -> 2 * k
      [] col = "first" -> IF k = 1 THEN 1 ELSE 0
      [] col = "zero" -> 0
      [] col = "negative" -> -1

\* What the user types into the three numeric columns of the grid: a weight
\* column, the return of the first row and of the other rows, the yield of
\* the odd rows and of the even rows.
Grid(col, rc, yc) == [col |-> col, rc |-> rc, yc |-> yc]

TypedGrids ==
    {Grid("equal25", <<0, 0>>, <<3, 3>>),
     Grid("unit", <<0, 0>>, <<3, 3>>),
     Grid("ramp", <<409500, 409500>>, <<3, 0>>),
     Grid("ramp2", <<409500, 409500>>, <<3, 0>>),
     Grid("ramp", <<0, 0>>, <<3, 3>>),
     Grid("first", <<409500, 0>>, <<3, 0>>),
     Grid("zero", <<0, 0>>, <<3, 3>>),
     Grid("negative", <<409500, 409500>>, <<3, 0>>)}

\* The grid after the user has retyped the three numeric columns.
TypedRows(rows, g) ==
    [k \in 1..Len(rows) |->
        [name |-> rows[k].name,
         w |-> TkNum(TypedWeight(g.col, k)),
         r |-> TkNum(IF k = 1 THEN g.rc[1] ELSE g.rc[2]),
         y |-> TkNum(IF k % 2 = 1 THEN g.yc[1] ELSE g.yc[2])]]

RECURSIVE SumSeq(_)
SumSeq(q) == IF q = <<>> THEN Zero ELSE RAdd(q[1], SumSeq(Tail(q)))

\* Mutant: the weights are used as typed.
NormalizeWeights_Raw(weights, total_w) == weights

\* weights = [w/total_w*100.0 for w in weights]
NormalizeWeights(weights, total_w) ==
    [k \in 1..Len(weights) |-> RMul(RDiv(weights[k], total_w), R(100))]

\* sum(w/100.0 * x for w, x in zip(weights, xs))
WeightedSum(weights, xs) ==
    SumSeq([k \in 1..Len(weights) |-> RMul(RDiv(weights[k], R(100)), xs[k])])

\* name = n_var.get().strip() or f"資產{len(names)+1}"
AssetName(rows, k) ==
    IF rows[k].name = "" THEN <<"asset", k>> ELSE <<rows[k].name, 0>>

\* Mutant: only a zero total is rejected.
TotalRejected_ZeroOnly(total_w) == total_w = Zero

\* if total_w <= 0: raise ValueError
TotalRejected(total_w) == RLe(total_w, Zero)

\* The weights as read from the grid: w_var.get() of each row.
WeightsOf(rows) == [k \in 1..Len(rows) |-> R(rows[k].w.v)]

\* The weighted annual return on_port_calc computes for the grid, when the
\* weights are readable and their total is positive.
PortReturn(rows) ==
    WeightedSum(NormalizeWeights(WeightsOf(rows), SumSeq(WeightsOf(rows))),
                [k \in 1..Len(rows) |-> R(rows[k].r.v)])

\* The weighted yield on_port_calc computes for the grid, likewise.
PortYield(rows) ==
    WeightedSum(NormalizeWeights(WeightsOf(rows), SumSeq(WeightsOf(rows))),
                [k \in 1..Len(rows) |-> Get(rows[k].y)])

\* The part of on_port_calc after the pie chart is drawn.
PortGrowth(p, port_return, port_yield, pie) ==
    IF ~AllNum({p.years, p.pv, p.pmt}) THEN Aborted("TclError", 1, pie)
    ELSE
        LET months == MonthsOf(p.years.v)
            i == annual_to_monthly_rate(port_return)
            balances == simulate_growth(R(p.pv.v), R(p.pmt.v), i, months,
                                        FALSE).val
            corpus == balances[Len(balances)]
            monthly_div == monthly_dividend_income(corpus, port_yield).val
        IN  Outcome("none", 3,
                    [shown |-> TRUE,
                     port_return |-> Fmt2(port_return),
                     port_yield |-> Fmt2(port_yield),
                     years |-> p.years.v,
                     corpus |-> Fmt0(corpus),
                     monthly_div |-> Fmt0(monthly_div)],
                    pie,
                    plot_series(Range(Len(balances)), balances,
                                "portfolio growth"))

\* The try block of on_port_calc on the form p and the grid rows.
on_port_calc(p, rows) ==
    IF ~AllNum({rows[k].w : k \in 1..Len(rows)}
               \cup {rows[k].r : k \in 1..Len(rows)}
               \cup {rows[k].y : k \in 1..Len(rows)})
    THEN Aborted("TclError", 0, EmptyPlot)
    ELSE
        LET weights == WeightsOf(rows)
            total_w == SumSeq(weights)
        IN  IF TotalRejected(total_w) THEN Aborted("ValueError", 0, EmptyPlot)
            ELSE
                LET normal == NormalizeWeights(weights, total_w)
                    port_return ==
                        WeightedSum(normal,
                                    [k \in 1..Len(rows) |-> R(rows[k].r.v)])
                    port_yield ==
                        WeightedSum(normal,
                                    [k \in 1..Len(rows) |-> Get(rows[k].y)])
                    names == [k \in 1..Len(rows) |-> AssetName(rows, k)]
                IN  PortGrowth(p, port_return, port_yield,
                               plot_pie(names, normal, p.name))

\* The grids on_port_calc can be computed for: the weighted return, when the
\* handler gets as far as converting it, has an exact monthly rate.
Computable(p, rows) ==
    (RLt(Zero, SumSeq(WeightsOf(rows))) /\ AllNum({p.years, p.pv, p.pmt}))
        => Convertible(PortReturn(rows))

\* A click on the portfolio tab's button: whether the grid is one the model
\* can compute, and what on_port_calc then does.
PortEntry(p, rows) ==
    IF Computable(p, rows)
    THEN [computable |-> TRUE, out |-> on_port_calc(p, rows)]
    ELSE [computable |-> FALSE, out |-> Aborted("none", 0, EmptyPlot)]

\* The grid of n rows as add_row creates them.
DefaultGrid(n) == [k \in 1..n |-> DefaultRow]

\* The clicks on grids whose rows keep the name add_row gave them, computed
\* once for each number of rows, form and typed columns.
PortClicks ==
    {[n |-> n, p |-> p, g |-> g,
      click |-> PortEntry(p, TypedRows(DefaultGrid(n), g))] :
        n \in DefaultRows..MaxRows, p \in PortInputs, g \in TypedGrids}

PortClick(p, g, rows) ==
    IF /\ Len(rows) \in DefaultRows..MaxRows
       /\ rows = TypedRows(DefaultGrid(Len(rows)), g)
    THEN (CHOOSE c \in PortClicks :
              c.n = Len(rows) /\ c.p = p /\ c.g = g).click
    ELSE PortEntry(p, rows)

\* -------------------------------------------------------------- the state
engine_vars == <<call, prev>>

form_vars == <<dca, goal, div, life, port, asset_rows>>

dca_out == <<dca_result, dca_plot>>

goal_out == <<goal_result, goal_plot>>

div_out == <<div_income_result, div_required_result>>

life_out == <<life_result, life_plot_acc, life_plot_draw>>

port_out == <<port_result, port_plot_pie, port_plot_growth>>

output_vars == <<dca_out, goal_out, div_out, life_out, port_out>>

export_vars == <<save_path, files>>

vars == <<engine_vars, form_vars, output_vars, export_vars, dialog, last>>

DcaDefaults ==
    [pv |-> TkNum(0), pmt |-> TkNum(10000), return |-> TkNum(7),
     years |-> TkNum(20), due |-> FALSE]

DivDefaults ==
    [principal |-> TkNum(1000000), yield |-> TkNum(3),
     target_monthly |-> TkNum(20000), yield2 |-> TkNum(3)]

LifeDefaults ==
    [age_now |-> TkNum(30), age_ret |-> TkNum(60), pv |-> TkNum(0),
     pmt |-> TkNum(15000), ret |-> TkNum(7), due |-> FALSE,
     ret_years |-> TkNum(30), ret_return |-> TkNum(4), mode |-> "annuity",
     swr |-> TkNum(4)]

\* The application as ETFCalculatorApp.__init__ leaves it.
Init ==
    /\ call = NoCall
    /\ prev = NoCall
    /\ dca = DcaDefaults
    /\ goal = GoalDefaults
    /\ div = DivDefaults
    /\ life = LifeDefaults
    /\ port = PortDefaults
    /\ asset_rows = [k \in 1..DefaultRows |-> DefaultRow]
    /\ dca_result = NoText
    /\ dca_plot = EmptyPlot
    /\ goal_result = NoText
    /\ goal_plot = EmptyPlot
    /\ div_income_result = NoText
    /\ div_required_result = NoText
    /\ life_result = NoText
    /\ life_plot_acc = EmptyPlot
    /\ life_plot_draw = EmptyPlot
    /\ port_result = NoText
    /\ port_plot_pie = EmptyPlot
    /\ port_plot_growth = EmptyPlot
    /\ save_path = NoPath
    /\ files = [path \in Paths |-> NoFile]
    /\ dialog = NoDialog
    /\ last = "__init__"

\* except Exception as e: messagebox.showerror(...)
DialogOf(out) == IF out.err = "none" THEN NoDialog ELSE showerror(out.err)

\* The user fills in the goal tab and clicks the button.
OnGoalCalc ==
    \E f \in GoalInputs :
        \E out \in {on_goal_calc(f)} :
            /\ goal' = f
            /\ goal_result' = IF out.done >= 1 THEN out.label ELSE goal_result
            /\ goal_plot' = IF out.done >= 2 THEN out.plot1 ELSE goal_plot
            /\ dialog' = DialogOf(out)
            /\ last' = "on_goal_calc"
            /\ UNCHANGED <<engine_vars, dca, div, life, port, asset_rows,
                           dca_out, div_out, life_out, port_out,
                           export_vars>>

\* The user fills in the DCA tab and clicks "calculate".
OnDcaCalc ==
    \E f \in DcaInputs :
        \E out \in {on_dca_calc(f)} :
            /\ dca' = f
            /\ dca_plot' = IF out.done >= 1 THEN out.plot1 ELSE dca_plot
            /\ dca_result' = IF out.done >= 2 THEN out.label ELSE dca_result
            /\ dialog' = DialogOf(out)
            /\ last' = "on_dca_calc"
            /\ UNCHANGED <<engine_vars, goal, div, life, port, asset_rows,
                           goal_out, div_out, life_out, port_out,
                           export_vars>>

\* The user fills in the DCA tab, clicks "export" and answers the save
\* dialog with a file name or by cancelling it.
OnDcaExport ==
    \E f \in DcaInputs, path \in Paths \cup {""} :
        \E out \in {on_dca_export(f, path)} :
            /\ dca' = f
            /\ save_path' = out.asked
            /\ files' = IF out.file.exists
                        THEN [files EXCEPT ![out.asked] = out.file]
                        ELSE files
            /\ dialog' = IF out.err # "none" THEN showerror(out.err)
                         ELSE IF out.file.exists THEN showinfo("exported")
                         ELSE NoDialog
            /\ last' = "on_dca_export"
            /\ UNCHANGED <<engine_vars, goal, div, life, port, asset_rows,
                           output_vars>>

\* The user retypes the grid and the portfolio form and clicks the button.
OnPortCalc ==
    \E p \in PortInputs, g \in TypedGrids :
        \E rows \in {TypedRows(asset_rows, g)} :
            \E click \in {PortClick(p, g, rows)} :
                /\ click.computable
                /\ port' = p
                /\ asset_rows' = rows
                /\ port_plot_pie' =
                     IF click.out.done >= 1 THEN click.out.plot1
                     ELSE port_plot_pie
                /\ port_plot_growth' =
                     IF click.out.done >= 2 THEN click.out.plot2
                     ELSE port_plot_growth
                /\ port_result' =
                     IF click.out.done >= 3 THEN click.out.label
                     ELSE port_result
                /\ dialog' = DialogOf(click.out)
                /\ last' = "on_port_calc"
                /\ UNCHANGED <<engine_vars, dca, goal, div, life, dca_out,
                               goal_out, div_out, life_out, export_vars>>

\* The "add row" button: add_row("").
AddRow ==
    /\ Len(asset_rows) < MaxRows
    /\ asset_rows' = Append(asset_rows, DefaultRow)
    /\ last' = "add_row"
    /\ dialog' = NoDialog
    /\ UNCHANGED <<engine_vars, dca, goal, div, life, port, output_vars,
                   export_vars>>

\* Mutant: the last row is removed.
RowsAfterDelete_Pop(rows) == SubSeq(rows, 1, Len(rows) - 1)

\* on_port_del_row: the rows it leaves in self.asset_rows.
RowsAfterDelete(rows) == rows

\* The "delete last row" button.
OnPortDelRow ==
    /\ dialog' = IF asset_rows = <<>> THEN NoDialog
                 ELSE showinfo("reopen the program to reset the rows")
    /\ asset_rows' = RowsAfterDelete(asset_rows)
    /\ last' = "on_port_del_row"
    /\ UNCHANGED <<engine_vars, dca, goal, div, life, port, output_vars,
                   export_vars>>

\* self.scenarios: the presets, as (annual return %, annual yield %).
Scenarios ==
    {[return |-> 3, div_yield |-> 2],
     [return |-> 5, div_yield |-> <<5, 2>>],
     [return |-> 7, div_yield |-> 3],
     [return |-> 9, div_yield |-> <<7, 2>>]}

\* Mutant: the portfolio rows are left out of the broadcast.
ScenarioRows_Skip(rows, p) == rows

\* for (_n, _w, rr, yy) in self.asset_rows: rr.set(...); yy.set(...)
ScenarioRows(rows, p) ==
    [k \in 1..Len(rows) |->
        [rows[k] EXCEPT !.r = TkNum(p.return), !.y = TkNum(p.div_yield)]]

\* A preset's button: apply_scenario(p).
ApplyScenario ==
    \E p \in Scenarios :
        /\ dca' = [dca EXCEPT !.return = TkNum(p.return)]
        /\ goal' = [goal EXCEPT !.return = TkNum(p.return)]
        /\ div' = [div EXCEPT !.yield = TkNum(p.div_yield),
                              !.yield2 = TkNum(p.div_yield)]
        /\ life' = [life EXCEPT !.ret = TkNum(p.return),
                                !.ret_return = TkNum(p.return)]
        /\ asset_rows' = ScenarioRows(asset_rows, p)
        /\ dialog' = showinfo("scenario applied")
        /\ last' = "apply_scenario"
        /\ UNCHANGED <<engine_vars, port, output_vars, export_vars>>

\* A direct call of an engine function leaves the application alone.
EngineNext ==
    /\ EngineCall
    /\ UNCHANGED <<form_vars, output_vars, export_vars, dialog, last>>

EngineSpec == Init /\ [][EngineNext]_vars

DcaNext ==
    \/ OnDcaCalc
    \/ OnDcaExport

DcaSpec == Init /\ [][DcaNext]_vars

GoalNext == OnGoalCalc

GoalSpec == Init /\ [][GoalNext]_vars

PortNext ==
    \/ OnPortCalc
    \/ AddRow
    \/ OnPortDelRow

PortSpec == Init /\ [][PortNext]_vars

\* The portfolio tab together with the scenario tab's buttons.
ScnNext ==
    \/ OnPortCalc
    \/ AddRow
    \/ OnPortDelRow
    \/ ApplyScenario

ScnSpec == Init /\ [][ScnNext]_vars

\* ------------------------------------------------------- engine properties
EngineFunctions ==
    {"solve_pmt_for_target_fv", "required_principal_for_dividend",
     "monthly_withdraw_for_years", "fv_annuity", "fv_with_principal",
     "simulate_growth", "simulate_drawdown"}

\* C1: whenever solve_pmt_for_target_fv returned a payment, fv_with_principal
\* of that payment (same principal, rate, months, timing) is the target.
C1_SolvedPaymentReachesTarget ==
    (call.fn = "fv_with_principal" /\ prev.fn = "solve_pmt_for_target_fv")
        => call.out = Ok(prev.args.fv_target)

C1_Witness ==
    /\ call.fn = "fv_with_principal"
    /\ prev.fn = "solve_pmt_for_target_fv"
    /\ call.args.due
    /\ call.args.i = <<1, 2>>
    /\ call.args.n = 2
    /\ call.args.pv = One
    /\ call.args.pmt # Zero
    /\ call.out = Ok(R(2))

\* C2 (as claimed): every balance simulate_drawdown returns is >= 0, and the
\* path stops at the first month whose balance is zero.
C2_DrawdownNeverNegative ==
    call.fn = "simulate_drawdown" =>
        LET b == call.out.val
        IN  /\ \A k \in 1..Len(b) : RLe(Zero, b[k])
            /\ \A k \in 2..Len(b) : b[k] = Zero => k = Len(b)
            /\ Len(b) <= IF call.args.months > 0 THEN call.args.months + 1
                         ELSE 1

\* C4 (as claimed): an engine function returns a value or raises ValueError,
\* never another exception.
C4_OnlyInvalidInputErrors ==
    call.fn \in EngineFunctions => call.out.err \in {"none", "ValueError"}

\* m is the whole number nearest to x, the even one when x is halfway.
IsNearestWhole(m, x) ==
    LET dist == RAbs(RSub(x, R(m)))
    IN  /\ RLe(dist, <<1, 2>>)
        /\ dist = <<1, 2>> => m % 2 = 0

\* C6 (as claimed): with zero return the withdrawal is corpus / (years * 12)
\* for every accepted positive term.
C6_ZeroReturnIsCorpusOverYears12 ==
    ( /\ call.fn = "monthly_withdraw_for_years"
      /\ call.args.annual_return_pct = Zero
      /\ RLt(Zero, call.args.years)
      /\ call.out.err = "none" )
        => call.out.val = RDiv(call.args.corpus, RMul(call.args.years, R(12)))

\* C6 (amended): with zero return the withdrawal is corpus / m, m being
\* years * 12 rounded to the nearest whole month (ties to even), m >= 1.
C6_ZeroReturnIsCorpusOverWholeMonths ==
    ( /\ call.fn = "monthly_withdraw_for_years"
      /\ call.args.annual_return_pct = Zero
      /\ call.out.err = "none" )
        => \E m \in 1..(MaxHalfMonths + 1) :
              /\ IsNearestWhole(m, RMul(call.args.years, R(12)))
              /\ RMul(call.out.val, R(m)) = call.args.corpus

C6_Witness ==
    /\ call.fn = "monthly_withdraw_for_years"
    /\ call.args.annual_return_pct = Zero
    /\ call.args.years = <<1, 8>>
    /\ call.args.corpus = R(2)
    /\ call.out = Ok(One)

\* C7 (as claimed): ValueError for every years <= 0, a withdrawal for every
\* years > 0.
C7_ErrorsIffTermNotPositive ==
    call.fn = "monthly_withdraw_for_years" =>
        IF RLe(call.args.years, Zero) THEN call.out.err = "ValueError"
        ELSE call.out.err = "none"

\* C7 (amended): ValueError exactly when years * 12 <= 1/2, the terms that
\* round to no whole month.
C7_ErrorsIffTermRoundsToZero ==
    call.fn = "monthly_withdraw_for_years" =>
        (call.out.err = "ValueError"
            <=> RLe(RMul(call.args.years, R(12)), <<1, 2>>))

C7_Witness ==
    /\ call.fn = "monthly_withdraw_for_years"
    /\ call.args.years = <<1, 24>>
    /\ call.args.corpus = One
    /\ call.out.err = "ValueError"

\* C8: required_principal_for_dividend raises ValueError for every yield
\* <= 0 and returns a principal for every yield > 0.
C8_RequiredPrincipalErrorsIffYieldNotPositive ==
    call.fn = "required_principal_for_dividend" =>
        IF RLe(call.args.dividend_yield_pct, Zero)
        THEN call.out.err = "ValueError"
        ELSE call.out.err = "none"

C8_Witness ==
    /\ call.fn = "required_principal_for_dividend"
    /\ RLt(call.args.dividend_yield_pct, Zero)
    /\ call.args.target_monthly = R(20000)
    /\ call.out.err = "ValueError"

\* C9: for yield > 0 the two dividend functions undo each other, in both
\* orders.
C9_DividendFunctionsAreInverses ==
    /\ ( /\ call.fn = "required_principal_for_dividend"
         /\ prev.fn = "monthly_dividend_income"
         /\ RLt(Zero, call.args.dividend_yield_pct) )
            => call.out = Ok(prev.args.principal)
    /\ ( /\ call.fn = "monthly_dividend_income"
         /\ prev.fn = "required_principal_for_dividend" )
            => call.out = Ok(prev.args.target_monthly)

C9_Witness ==
    /\ call.fn = "required_principal_for_dividend"
    /\ prev.fn = "monthly_dividend_income"
    /\ prev.args.principal = R(1000000)
    /\ prev.args.dividend_yield_pct = R(3)
    /\ prev.out = Ok(R(2500))
    /\ call.out = Ok(R(1000000))

\* ------------------------------------------------ properties of the tabs
\* C3: when a click handler fails, the error dialog is shown and every
\* result label and chart is exactly as it was before the click.
C3_ErrorLeavesResultsUntouched ==
    [][dialog'.kind = "error" => UNCHANGED output_vars]_vars

\* C5: with zero months (any rate of the form, either timing) the goal
\* solver raises the invalid-input error, and on_goal_calc shows it and
\* displays no payment: the label and the chart stay as they were.
C5_ZeroMonthsIsDegenerate ==
    [][(/\ last' = "on_goal_calc"
        /\ AllNum({goal'.return, goal'.years, goal'.target, goal'.pv})
        /\ MonthsOf(goal'.years.v) = 0)
       => /\ solve_pmt_for_target_fv(
                 R(goal'.target.v), R(goal'.pv.v),
                 annual_to_monthly_rate(R(goal'.return.v)), 0,
                 goal'.due).err = "ValueError"
          /\ dialog' = showerror("ValueError")
          /\ goal_result' = goal_result
          /\ goal_plot' = goal_plot]_vars

\* A click with zero years, a non-zero rate and payments at the start of the
\* month was refused while an earlier payment is still displayed.
C5_Witness ==
    /\ last = "on_goal_calc"
    /\ goal.years = TkNum(0)
    /\ goal.return = TkNum(409500)
    /\ goal.due
    /\ dialog = showerror("ValueError")
    /\ goal_result.shown
    /\ goal_plot.kind = "series"

AllPositive(rows) == \A k \in 1..Len(rows) : rows[k].w.v > 0

\* sum(w*x) / sum(w): the weighted average of xs under the typed weights.
TrueAverage(rows, xs) ==
    RDiv(SumSeq([k \in 1..Len(rows) |-> R(rows[k].w.v * xs[k])]),
         SumSeq(WeightsOf(rows)))

\* The grid with every weight multiplied by c.
Scaled(rows, c) ==
    [k \in 1..Len(rows) |-> [rows[k] EXCEPT !.w = TkNum(rows[k].w.v * c)]]

\* C10: for positive typed weights the weights on_port_calc plots sum to 100
\* and keep the proportions of the typed ones; the displayed return and yield
\* are the averages under the normalized weights, and multiplying every
\* weight by a common positive factor changes neither.
C10_WeightsAreNormalized ==
    (last = "on_port_calc" /\ AllPositive(asset_rows)) =>
        LET sizes == port_plot_pie.sizes
            w == WeightsOf(asset_rows)
            rs == [k \in 1..Len(asset_rows) |-> asset_rows[k].r.v]
            ys == [k \in 1..Len(asset_rows) |-> asset_rows[k].y.v]
        IN  /\ port_plot_pie.kind = "pie"
            /\ Len(sizes) = Len(asset_rows)
            /\ SumSeq(sizes) = R(100)
            /\ \A a, b \in 1..Len(sizes) :
                   RMul(sizes[a], w[b]) = RMul(sizes[b], w[a])
            /\ PortReturn(asset_rows) = TrueAverage(asset_rows, rs)
            /\ PortYield(asset_rows) = TrueAverage(asset_rows, ys)
            /\ \A c \in 2..MaxScale :
                   /\ PortReturn(Scaled(asset_rows, c)) = PortReturn(asset_rows)
                   /\ PortYield(Scaled(asset_rows, c)) = PortYield(asset_rows)
            /\ dialog = NoDialog =>
                   /\ port_result.port_return
                          = Fmt2(TrueAverage(asset_rows, rs))
                   /\ port_result.port_yield
                          = Fmt2(TrueAverage(asset_rows, ys))

\* Five rows weighted 2, 4, 6, 8, 10 were computed: the first slice is 20/3.
C10_Witness ==
    /\ last = "on_port_calc"
    /\ dialog = NoDialog
    /\ Len(asset_rows) = 5
    /\ asset_rows[2].w.v = 4
    /\ asset_rows[1].r.v = 409500
    /\ port_plot_pie.sizes[1] = <<20, 3>>
    /\ port_result.shown
    /\ port_result.port_yield = 180

\* C11: when the typed weights total zero or less, on_port_calc raises the
\* invalid-input error before it normalizes or draws anything: the dialog
\* shows ValueError and the pie chart, the growth chart and the result label
\* are as they were before the click.
C11_NonPositiveTotalIsRejected ==
    [][(/\ last' = "on_port_calc"
        /\ RLe(SumSeq(WeightsOf(asset_rows')), Zero))
       => /\ dialog' = showerror("ValueError")
          /\ UNCHANGED port_out]_vars

\* A grid of negative weights was refused while an earlier pie chart and
\* result are still displayed.
C11_Witness ==
    /\ last = "on_port_calc"
    /\ dialog = showerror("ValueError")
    /\ \A k \in 1..Len(asset_rows) : asset_rows[k].w.v < 0
    /\ port_plot_pie.kind = "pie"
    /\ port_result.shown

\* C12: apply_scenario(p) sets the return fields of the DCA, goal and life
\* tabs (both phases) and of every portfolio row to p.return, and the two
\* dividend yields and every row's yield to p.div_yield; every other input,
\* the number of rows and every displayed result are as before.
C12_ScenarioOverwritesOnlyReturnsAndYields ==
    [][last' = "apply_scenario" =>
        \E p \in Scenarios :
            /\ dca'.return = TkNum(p.return)
            /\ goal'.return = TkNum(p.return)
            /\ life'.ret = TkNum(p.return)
            /\ life'.ret_return = TkNum(p.return)
            /\ div'.yield = TkNum(p.div_yield)
            /\ div'.yield2 = TkNum(p.div_yield)
            /\ Len(asset_rows') = Len(asset_rows)
            /\ \A k \in 1..Len(asset_rows) :
                   /\ asset_rows'[k].r = TkNum(p.return)
                   /\ asset_rows'[k].y = TkNum(p.div_yield)
                   /\ asset_rows'[k].name = asset_rows[k].name
                   /\ asset_rows'[k].w = asset_rows[k].w
            /\ [dca' EXCEPT !.return = dca.return] = dca
            /\ [goal' EXCEPT !.return = goal.return] = goal
            /\ [life' EXCEPT !.ret = life.ret,
                             !.ret_return = life.ret_return] = life
            /\ DOMAIN div' = {"principal", "yield", "target_monthly", "yield2"}
            /\ div'.principal = div.principal
            /\ div'.target_monthly = div.target_monthly
            /\ UNCHANGED <<port, output_vars>>]_vars

\* The 5% / 2.5% preset was applied to five rows weighted 2, 4, .. while a
\* computed portfolio is on display.
C12_Witness ==
    /\ last = "apply_scenario"
    /\ goal.return = TkNum(5)
    /\ div.yield = TkNum(<<5, 2>>)
    /\ Len(asset_rows) = 5
    /\ \A k \in 1..5 : /\ asset_rows[k].w = TkNum(2 * k)
                       /\ asset_rows[k].r = TkNum(5)
                       /\ asset_rows[k].y = TkNum(<<5, 2>>)
    /\ port_result.shown
    /\ port_plot_pie.kind = "pie"

\* C13: simulate_growth returns months + 1 balances ([pv] alone when months
\* is zero or less); the first is pv and each later one is
\* (previous + pmt) * (1 + i) when due, previous * (1 + i) + pmt otherwise.
C13_GrowthPathFollowsTheTimingRule ==
    call.fn = "simulate_growth" =>
        LET a == call.args
            b == call.out.val
        IN  /\ call.out.err = "none"
            /\ Len(b) = (IF a.months > 0 THEN a.months ELSE 0) + 1
            /\ b[1] = a.pv
            /\ \A t \in 2..Len(b) :
                   b[t] = IF a.due
                          THEN RMul(RAdd(b[t - 1], a.pmt), RAdd(One, a.i))
                          ELSE RAdd(RMul(b[t - 1], RAdd(One, a.i)), a.pmt)

\* Three months from 1 with deposits of 1 at the start of the month and a
\* monthly rate of 1: 1, 4, 10, 22.
C13_Witness ==
    /\ call.fn = "simulate_growth"
    /\ call.args.due
    /\ call.args.months = 3
    /\ call.out.val = <<R(1), R(4), R(10), R(22)>>

\* C14: an export that is given a file name writes the header month,balance
\* and then one row per simulated month, months + 1 rows, numbered 0..months
\* in increasing order, each with that month's balance to two decimals; a
\* cancelled save dialog writes nothing.
C14_ExportWritesOneRowPerMonth ==
    [][last' = "on_dca_export" =>
        /\ save_path' = "" => (files' = files /\ dialog' = NoDialog)
        /\ save_path' \in Paths =>
               \A balances \in
                      {simulate_growth(
                           R(dca'.pv.v), R(dca'.pmt.v),
                           annual_to_monthly_rate(R(dca'.return.v)),
                           MonthsOf(dca'.years.v), dca'.due).val} :
                   LET f == files'[save_path']
                   IN  /\ f.exists
                       /\ f.header = <<"month", "balance">>
                       /\ Len(f.rows) = MonthsOf(dca'.years.v) + 1
                       /\ \A k \in 1..Len(f.rows) :
                              /\ f.rows[k][1] = k - 1
                              /\ f.rows[k][2] = Fmt2(balances[k])
                       /\ dialog'.kind = "info"]_vars

\* A year of deposits at the start of the month at a monthly rate of 1 was
\* exported: 13 rows, the last one month 12 with balance 12286.00; then the
\* next export was cancelled and the file is still there.
C14_Witness ==
    /\ last = "on_dca_export"
    /\ save_path = ""
    /\ files["dca.csv"].exists
    /\ Len(files["dca.csv"].rows) = 13
    /\ files["dca.csv"].rows[13] = <<12, 1228600>>

\* C15: for months >= 0 the last balance of simulate_growth is
\* fv_with_principal of the same arguments, for zero and non-zero rates and
\* both timings; so the path simulated with a solved payment ends at the
\* target the payment was solved for.
C15_GrowthLoopAgreesWithClosedForm ==
    (call.fn = "simulate_growth" /\ call.args.months >= 0) =>
        LET a == call.args
            b == call.out.val
        IN  /\ Ok(b[Len(b)])
                = fv_with_principal(a.pv, a.pmt, a.i, a.months, a.due)
            /\ prev.fn = "solve_pmt_for_target_fv"
                   => b[Len(b)] = prev.args.fv_target

\* Three months at the start of the month at a monthly rate of 1/2 with the
\* payment solved for a target of 2 from a principal of 1.
C15_Witness ==
    /\ call.fn = "simulate_growth"
    /\ prev.fn = "solve_pmt_for_target_fv"
    /\ call.args.months = 3
    /\ call.args.due
    /\ call.args.i = <<1, 2>>
    /\ call.args.pv = One
    /\ call.args.pmt # Zero
    /\ Len(call.out.val) = 4
    /\ call.out.val[4] = R(2)

\* C16: for a positive corpus and a term of m = years * 12 whole months, the
\* drawdown run with the withdrawal monthly_withdraw_for_years sized for that
\* term and return has m + 1 balances, positive in months 0..m-1 and zero in
\* month m.
C16_SizedWithdrawalDrainsAtTermEnd ==
    (/\ call.fn = "simulate_drawdown"
     /\ prev.fn = "monthly_withdraw_for_years"
     /\ RLt(Zero, prev.args.corpus)
     /\ RMul(prev.args.years, R(12))[2] = 1) =>
        LET m == RMul(prev.args.years, R(12))[1]
            b == call.out.val
        IN  /\ call.args.months = m
            /\ Len(b) = m + 1
            /\ \A k \in 1..m : RLt(Zero, b[k])
            /\ b[m + 1] = Zero

\* A corpus of 2 drawn down over 2 months at a monthly return of 1/2: the
\* withdrawal is 9/5 and the path is 2, 6/5, 0.
C16_Witness ==
    /\ call.fn = "simulate_drawdown"
    /\ prev.fn = "monthly_withdraw_for_years"
    /\ prev.args.years = <<1, 6>>
    /\ prev.args.annual_return_pct = <<13183625, 1024>>
    /\ call.args.monthly_withdraw = <<9, 5>>
    /\ call.out.val = <<R(2), <<6, 5>>, Zero>>

=============================================================================
